---- MODULE Spec2Model ----
(***************************************************************************)
(* Model of the pgo-raftkv client of go-ycsb (src/db/pgo-raftkv/db.go).     *)
(*                                                                         *)
(* Worker goroutines call InitThread once and then Read / Insert / Update  *)
(* / Delete / Scan on the endpoint InitThread gave them.  An endpoint owns *)
(* an unbuffered request channel (inCh), an unbuffered response channel    *)
(* (outCh) and a timeout channel of capacity one (timeoutCh), all wired    *)
(* into one instance of the raftkvs client runtime.  The runtime and the   *)
(* cluster behind it are not part of db.go; they are modelled as the       *)
(* environment: a key-value store that answers the requests it received.   *)
(***************************************************************************)
EXTENDS Integers, Sequences, FiniteSets, TLC

\* ------------------------------------------------------------------ bounds
NumWorkers == 2
MaxPool == 2
MaxOps == 2
MaxOpsFaulty == 1
MaxOpsLive == 1

\* `make(chan tla.TLAValue, 1)`
TimeoutChCap == 1

Workers == 1..NumWorkers

\* (table, key) arguments of the API calls
Pairs == {<<"t", "k">>, <<"t/u", "k">>}

\* []byte values, as sequences of bytes
B1 == <<1>>
B2 == <<2>>

EmptyMap == <<>>

\* map[string][]byte arguments of Insert and of Update
InsertMaps == {[x \in {"f", "g"} |-> B1]}
UpdateMaps == {[x \in {"f"} |-> B2]}
ValueMaps == InsertMaps \cup UpdateMaps

\* `fields []string` arguments of Read
FieldLists == {<<>>, <<"f">>}

\* the nil fieldFilter
NilFilter == [isNil |-> TRUE, names |-> {}]

\* ----------------------------------------------------------- pure helpers
\* keyStr := table + "/" + key
KeyStr(table, key) == table \o "/" \o key

FlatKeys == {KeyStr(p[1], p[2]) : p \in Pairs}

\* mutant: Read builds no filter
FieldFilterNil(fields) == NilFilter

\* the fieldFilter of Read: nil for an empty field list, else the set of names
FieldFilter(fields) ==
    IF Len(fields) # 0
    THEN [isNil |-> FALSE, names |-> {fields[i] : i \in 1..Len(fields)}]
    ELSE NilFilter

\* string(values[k]) and []byte(v.AsString()): a byte-for-byte copy
BytesToString(b) == [i \in 1..Len(b) |-> b[i]]
StringToBytes(s) == [i \in 1..Len(s) |-> s[i]]

\* fmt.Sprintf("%d", n) for n >= 0, as the ASCII codes of the digits
RECURSIVE Itoa(_)
Itoa(n) == IF n < 10 THEN <<48 + n>> ELSE Itoa(n \div 10) \o <<48 + (n % 10)>>

\* length of the base64 text encoding/json writes for a []byte of n bytes
Base64Len(n) == 4 * ((n + 2) \div 3)

RECURSIVE SumOver(_, _)
SumOver(S, m) ==
    IF S = {} THEN 0
    ELSE LET k == CHOOSE x \in S : TRUE
         IN  (Len(k) + 2) + 1 + (Base64Len(Len(m[k])) + 2) + SumOver(S \ {k}, m)

\* len(json.Marshal(&values)) for a non-nil map: {"k":"<base64>",...}
JsonLen(m) ==
    LET n == Cardinality(DOMAIN m)
    IN  2 + SumOver(DOMAIN m, m) + (IF n > 1 THEN n - 1 ELSE 0)

\* the record built by the kvPairs loop of Insert
EncodeRecord(values) == [k \in DOMAIN values |-> BytesToString(values[k])]

\* the decoding loop of Read over the response's value
DecodeRecord(value, filter) ==
    LET keep == {k \in DOMAIN value : filter.isNil \/ k \in filter.names}
    IN  [k \in keep |-> StringToBytes(value[k])]

\* mutant: the merge keeps the value read for a field that is in both maps
MergeKeepsOld(result, values) ==
    [k \in DOMAIN result \cup DOMAIN values |->
        IF k \in DOMAIN result THEN result[k] ELSE values[k]]

\* mutant: the merge drops what was read
MergeSuppliedOnly(result, values) == values

\* for k := range values { result[k] = values[k] }
Merge(result, values) ==
    [k \in DOMAIN result \cup DOMAIN values |->
        IF k \in DOMAIN values THEN values[k] ELSE result[k]]

\* results handed back to the caller
NoRet == [status |-> "none", val |-> EmptyMap]
RetValue(m) == [status |-> "value", val |-> m]
RetNotFound == [status |-> "notfound", val |-> EmptyMap]
RetOk == [status |-> "ok", val |-> EmptyMap]
RetNotImpl == [status |-> "notimpl", val |-> EmptyMap]

NoOp == [kind |-> "none", table |-> "", key |-> "", fields |-> <<>>,
         values |-> EmptyMap]

NoEntry == [present |-> FALSE, value |-> <<>>]
NoResp == [msuccess |-> TRUE, mtype |-> "none", key |-> "", ok |-> FALSE,
           value |-> <<>>]
NoPrev == [kind |-> "none", key |-> "", values |-> EmptyMap, status |-> "none",
           prior |-> NoEntry]

\* --------------------------------------------------------------- variables
VARIABLES
    clientReplyPoints,  \* cfg.clientReplyPoints
    useInts,            \* cfg.useInts
    clientThreads,      \* cfg.clientThreads: the endpoints, by creating worker
    aborted,            \* "none", or why the process panicked
    pc,                 \* where each worker goroutine is
    threadCount,        \* the thread count the harness passes to InitThread
    appendOld,          \* the slice value that line 114's append read
    ctx,                \* the endpoint in the worker's context (0: none)
    allocated,          \* the endpoint's channels exist
    started,            \* the endpoint's runtime goroutine was started
    pending,            \* requests the runtime received on inCh, unanswered
    outCh,              \* the response the runtime offers on outCh
    timeoutCh,          \* the buffered timeout channel
    store,              \* the cluster's key-value state
    op,                 \* the worker's current (or last) API call
    keyStr,             \* local keyStr of the running Read / Insert
    fieldFilter,        \* local fieldFilter of the running Read
    kvFn,               \* local kvFn of the running Insert
    ret,                \* what the last API call returned
    nOps,               \* number of API calls each worker started
    opBudget,           \* number of API calls the run explores
    sent,               \* requests put on inCh by the current (or last) call
    drained,            \* the clearing select before the push took a signal
    written,            \* the flat keys some Put was ever applied to
    badResp,            \* the response an assert failed on
    prev,               \* the API call before the current one, with its result
    prior,              \* store entry met by the first request of the call
    intf,               \* another worker wrote the call's key since then
    clean,              \* ~intf, sampled when the call's first request applied
    exitErr,            \* what the endpoint's clientCtx.Run() returned (-1: runs)
    errCh,              \* the endpoint's errCh, of capacity one
    stopped,            \* clientCtx.Stop() was called on the endpoint
    closePc,            \* where Close is: "none", "stop", "recv", "done"
    closeList,          \* the slice Close ranges over
    closeIdx,           \* the position of Close's loop in it
    closeErr            \* Close's local err: the non-nil errors appended so far

cfgVars == <<clientReplyPoints, useInts, opBudget>>
initVars == <<clientThreads, threadCount, appendOld, ctx, allocated, started>>
chanVars == <<pending, outCh, timeoutCh>>
frameVars == <<keyStr, fieldFilter, kvFn>>
histVars == <<written, badResp, prev, prior, intf, clean>>
closeVars == <<exitErr, errCh, stopped, closePc, closeList, closeIdx, closeErr>>
vars == <<clientReplyPoints, useInts, opBudget, clientThreads, aborted, pc, threadCount,
          appendOld, ctx, allocated, started, pending, outCh, timeoutCh,
          store, op, keyStr, fieldFilter, kvFn, ret, nOps, sent, drained,
          written, badResp, prev, prior, intf, clean,
          exitErr, errCh, stopped, closePc, closeList, closeIdx, closeErr>>

\* the kvFn of Insert: the wire value of a field map
KvFn(values) ==
    IF useInts THEN Itoa(JsonLen(values)) ELSE EncodeRecord(values)

\* the cluster outlives the client: it may hold a value that an earlier run
\* of the benchmark loaded
Preloaded ==
    [k \in FlatKeys |->
        IF k = KeyStr("t", "k")
        THEN [present |-> TRUE, value |-> KvFn([x \in {"f", "g"} |-> B1])]
        ELSE NoEntry]

InitWith(budget) ==
    /\ opBudget = budget
    /\ clientReplyPoints \in {[i \in 1..n |-> i] : n \in 1..MaxPool}
    /\ useInts \in BOOLEAN
    /\ clientThreads = <<>>
    /\ aborted = "none"
    /\ pc = [t \in Workers |-> "start"]
    /\ threadCount \in 1..NumWorkers
    /\ appendOld = [t \in Workers |-> <<>>]
    /\ ctx = [t \in Workers |-> 0]
    /\ allocated = [t \in Workers |-> FALSE]
    /\ started = [t \in Workers |-> FALSE]
    /\ pending = [t \in Workers |-> <<>>]
    /\ outCh = [t \in Workers |-> <<>>]
    /\ timeoutCh = [t \in Workers |-> <<>>]
    /\ store \in {[k \in FlatKeys |-> NoEntry], Preloaded}
    /\ written = {k \in FlatKeys : store[k].present}
    /\ op = [t \in Workers |-> NoOp]
    /\ keyStr = [t \in Workers |-> ""]
    /\ fieldFilter = [t \in Workers |-> NilFilter]
    /\ kvFn = [t \in Workers |-> <<>>]
    /\ ret = [t \in Workers |-> NoRet]
    /\ nOps = [t \in Workers |-> 0]
    /\ sent = [t \in Workers |-> 0]
    /\ drained = [t \in Workers |-> FALSE]
    /\ badResp = NoResp
    /\ prev = [t \in Workers |-> NoPrev]
    /\ prior = [t \in Workers |-> NoEntry]
    /\ intf = [t \in Workers |-> FALSE]
    /\ clean = [t \in Workers |-> FALSE]
    /\ exitErr = [t \in Workers |-> -1]
    /\ errCh = [t \in Workers |-> <<>>]
    /\ stopped = [t \in Workers |-> FALSE]
    /\ closePc = "none"
    /\ closeList = <<>>
    /\ closeIdx = 0
    /\ closeErr = <<>>

Init == InitWith(MaxOps)

Running == aborted = "none"

\* ------------------------------------------------------------- InitThread
\* mutant: only a pool that is too short is refused
ThreadCountTooLarge(tc) == tc > Len(clientReplyPoints)

\* `threadCount != len(cfg.clientReplyPoints)`
ThreadCountMismatch(tc) == tc # Len(clientReplyPoints)

\* InitThread up to the read of cfg.clientThreads by append: the threadCount
\* check, the indexing of the reply-address pool, the channels and the context
InitThread(t, threadIdx) ==
    /\ Running
    /\ pc[t] = "start"
    /\ IF ThreadCountMismatch(threadCount)
       THEN /\ aborted' = "config"
            /\ UNCHANGED <<pc, allocated, appendOld>>
       ELSE IF threadIdx >= Len(clientReplyPoints)
       THEN /\ aborted' = "index"
            /\ UNCHANGED <<pc, allocated, appendOld>>
       ELSE /\ allocated' = [allocated EXCEPT ![t] = TRUE]
            /\ appendOld' = [appendOld EXCEPT ![t] = clientThreads]
            /\ pc' = [pc EXCEPT ![t] = "init_append"]
            /\ UNCHANGED aborted
    /\ UNCHANGED <<cfgVars, closeVars, clientThreads, threadCount, ctx, started, chanVars,
                   store, op, frameVars, ret, nOps, sent, drained, histVars>>

\* `cfg.clientThreads = append(cfg.clientThreads, clientThread)`: the write,
\* of the slice that was read plus the new endpoint (unsynchronized)
InitThreadAppend(t) ==
    /\ Running
    /\ pc[t] = "init_append"
    /\ clientThreads' = Append(appendOld[t], t)
    /\ appendOld' = [appendOld EXCEPT ![t] = <<>>]
    /\ pc' = [pc EXCEPT ![t] = "init_cap"]
    /\ UNCHANGED <<cfgVars, closeVars, aborted, threadCount, ctx, allocated, started,
                   chanVars, store, op, frameVars, ret, nOps, sent, drained,
                   histVars>>

\* the cap check, the start of the runtime goroutine and the return
InitThreadStart(t) ==
    /\ Running
    /\ pc[t] = "init_cap"
    /\ IF Len(clientThreads) > threadCount
       THEN /\ aborted' = "toomany"
            /\ UNCHANGED <<pc, started, ctx>>
       ELSE /\ started' = [started EXCEPT ![t] = TRUE]
            /\ ctx' = [ctx EXCEPT ![t] = t]
            /\ pc' = [pc EXCEPT ![t] = "idle"]
            /\ UNCHANGED aborted
    /\ UNCHANGED <<cfgVars, closeVars, clientThreads, threadCount, appendOld, allocated,
                   chanVars, store, op, frameVars, ret, nOps, sent, drained,
                   histVars>>

\* ------------------------------------------------------ the wire records
GetRequest(k) == [type |-> "Get", key |-> k, value |-> <<>>]
PutRequest(k, v) == [type |-> "Put", key |-> k, value |-> v]

\* mutant: every worker uses the endpoint of worker 1 once that one runs
ClientOfFirst(t) == IF ctx[t] # 0 /\ started[1] THEN 1 ELSE ctx[t]

\* the endpoint a worker's calls use: ctx.Value(threadIdxTag{})
Client(t) == ctx[t]

\* number of requests of endpoint e that were sent and whose response the
\* worker has not consumed
Outstanding(e) == Len(pending[e]) + Len(outCh[e])

\* ------------------------------------------------------------- API calls
RECURSIVE SumOps(_)
SumOps(S) ==
    IF S = {} THEN 0
    ELSE LET t == CHOOSE x \in S : TRUE IN nOps[t] + SumOps(S \ {t})

\* number of API calls started so far
TotalOps == SumOps(Workers)

\* bookkeeping at the start of every API call
BeginOp(t, kind, table, key, fields, values) ==
    /\ TotalOps < opBudget
    /\ nOps' = [nOps EXCEPT ![t] = @ + 1]
    /\ op' = [op EXCEPT ![t] = [kind |-> kind, table |-> table, key |-> key,
                                fields |-> fields, values |-> values]]
    /\ prev' = [prev EXCEPT ![t] =
                   [kind |-> op[t].kind, key |-> KeyStr(op[t].table, op[t].key),
                    values |-> op[t].values, status |-> ret[t].status,
                    prior |-> prior[t]]]

\* Read to the end of its send: keyStr, fieldFilter and `client.inCh <- Get`,
\* which completes when the runtime receives
ReadSend(t, table, key, fields) ==
    /\ started[Client(t)]
    /\ keyStr' = [keyStr EXCEPT ![t] = KeyStr(table, key)]
    /\ fieldFilter' = [fieldFilter EXCEPT ![t] = FieldFilter(fields)]
    /\ pending' = [pending EXCEPT ![Client(t)] =
                      Append(@, GetRequest(KeyStr(table, key)))]
    /\ pc' = [pc EXCEPT ![t] = "read_select"]

\* Insert to the end of its send: keyStr, kvFn and `client.inCh <- Put`
InsertSend(t, table, key, values) ==
    /\ started[Client(t)]
    /\ keyStr' = [keyStr EXCEPT ![t] = KeyStr(table, key)]
    /\ kvFn' = [kvFn EXCEPT ![t] = KvFn(values)]
    /\ pending' = [pending EXCEPT ![Client(t)] =
                      Append(@, PutRequest(KeyStr(table, key), KvFn(values)))]
    /\ pc' = [pc EXCEPT ![t] = "insert_select"]

Read(t, table, key, fields) ==
    /\ Running
    /\ pc[t] = "idle"
    /\ BeginOp(t, "Read", table, key, fields, EmptyMap)
    /\ ReadSend(t, table, key, fields)
    /\ sent' = [sent EXCEPT ![t] = 1]
    /\ ret' = [ret EXCEPT ![t] = NoRet]
    /\ UNCHANGED <<cfgVars, closeVars, initVars, aborted, outCh, timeoutCh, store, kvFn,
                   drained, written, badResp, prior, intf, clean>>

\* Update starts with `cfg.Read(ctx, table, key, nil)`
Update(t, table, key, values) ==
    /\ Running
    /\ pc[t] = "idle"
    /\ BeginOp(t, "Update", table, key, <<>>, values)
    /\ ReadSend(t, table, key, <<>>)
    /\ sent' = [sent EXCEPT ![t] = 1]
    /\ ret' = [ret EXCEPT ![t] = NoRet]
    /\ UNCHANGED <<cfgVars, closeVars, initVars, aborted, outCh, timeoutCh, store, kvFn,
                   drained, written, badResp, prior, intf, clean>>

Insert(t, table, key, values) ==
    /\ Running
    /\ pc[t] = "idle"
    /\ BeginOp(t, "Insert", table, key, <<>>, values)
    /\ InsertSend(t, table, key, values)
    /\ sent' = [sent EXCEPT ![t] = 1]
    /\ ret' = [ret EXCEPT ![t] = NoRet]
    /\ UNCHANGED <<cfgVars, closeVars, initVars, aborted, outCh, timeoutCh, store,
                   fieldFilter, drained, written, badResp, prior, intf, clean>>

\* `cfg.Insert(ctx, table, key, make(map[string][]byte))`
Delete(t, table, key) ==
    /\ Running
    /\ pc[t] = "idle"
    /\ BeginOp(t, "Delete", table, key, <<>>, EmptyMap)
    /\ InsertSend(t, table, key, EmptyMap)
    /\ sent' = [sent EXCEPT ![t] = 1]
    /\ ret' = [ret EXCEPT ![t] = NoRet]
    /\ UNCHANGED <<cfgVars, closeVars, initVars, aborted, outCh, timeoutCh, store,
                   fieldFilter, drained, written, badResp, prior, intf, clean>>

\* mutant: Scan asks the cluster before it gives up
ScanSends(t) ==
    /\ Running
    /\ pc[t] = "idle"
    /\ BeginOp(t, "Scan", "", "", <<>>, EmptyMap)
    /\ sent' = [sent EXCEPT ![t] = 1]
    /\ ret' = [ret EXCEPT ![t] = RetNotImpl]
    /\ pending' = [pending EXCEPT ![Client(t)] = Append(@, GetRequest(""))]
    /\ UNCHANGED <<cfgVars, closeVars, initVars, aborted, pc, outCh, timeoutCh, store,
                   frameVars, drained, written, badResp, prior, intf, clean>>

\* Scan uses no context: any goroutine that is not inside another call
Scan(t) ==
    /\ Running
    /\ pc[t] \in {"start", "idle"}
    /\ BeginOp(t, "Scan", "", "", <<>>, EmptyMap)
    /\ sent' = [sent EXCEPT ![t] = 0]
    /\ ret' = [ret EXCEPT ![t] = RetNotImpl]
    /\ UNCHANGED <<cfgVars, closeVars, initVars, aborted, pc, chanVars, store, frameVars,
                   drained, written, badResp, prior, intf, clean>>

\* ------------------------------------------------- the receive of Read
\* mutant: Read does not assert msuccess
ReadValidNoSuccess(resp, k) ==
    /\ resp.mtype = "ClientGetResponse"
    /\ resp.key = k

\* the three asserts of Read on a response
ReadValid(resp, k) ==
    /\ resp.msuccess
    /\ resp.mtype = "ClientGetResponse"
    /\ resp.key = k

\* mutant: Read does not look at the presence flag
ReadResultIgnoresOk(resp, filter) ==
    IF useInts THEN RetValue(EmptyMap)
    ELSE RetValue(DecodeRecord(resp.value, filter))

\* mutant: Read takes a key that holds no field for a missing key
ReadResultEmptyIsMissing(resp, filter) ==
    IF ~resp.ok \/ resp.value = KvFn(EmptyMap) THEN RetNotFound
    ELSE IF useInts THEN RetValue(EmptyMap)
    ELSE RetValue(DecodeRecord(resp.value, filter))

\* mutant: Read returns an empty map for a missing key
ReadResultEmptyForMissing(resp, filter) ==
    IF ~resp.ok \/ useInts THEN RetValue(EmptyMap)
    ELSE RetValue(DecodeRecord(resp.value, filter))

\* what Read returns for a response that passed the asserts
ReadResult(resp, filter) ==
    IF ~resp.ok THEN RetNotFound
    ELSE IF useInts THEN RetValue(EmptyMap)
    ELSE RetValue(DecodeRecord(resp.value, filter))

\* the return of an API call: its locals are gone
Return(t, r) ==
    /\ ret' = [ret EXCEPT ![t] = r]
    /\ pc' = [pc EXCEPT ![t] = "idle"]
    /\ keyStr' = [keyStr EXCEPT ![t] = ""]
    /\ fieldFilter' = [fieldFilter EXCEPT ![t] = NilFilter]
    /\ kvFn' = [kvFn EXCEPT ![t] = <<>>]

\* `case resp := <-client.outCh` of Read, to the return of Read; inside
\* Update, on through the merge to the send of Insert
ReadRecv(t) ==
    /\ Running
    /\ pc[t] = "read_select"
    /\ outCh[Client(t)] # <<>>
    /\ LET resp == Head(outCh[Client(t)])
           r == ReadResult(resp, fieldFilter[t])
       IN  IF ~ReadValid(resp, keyStr[t])
           THEN /\ aborted' = "integrity"
                /\ badResp' = resp
                /\ outCh' = [outCh EXCEPT ![Client(t)] = Tail(@)]
                /\ UNCHANGED <<pc, ret, frameVars, pending, sent>>
           ELSE IF op[t].kind = "Update" /\ r.status = "value"
           THEN /\ outCh' = [outCh EXCEPT ![Client(t)] = Tail(@)]
                /\ InsertSend(t, op[t].table, op[t].key,
                              Merge(r.val, op[t].values))
                /\ sent' = [sent EXCEPT ![t] = @ + 1]
                /\ UNCHANGED <<aborted, badResp, ret, fieldFilter>>
           ELSE /\ outCh' = [outCh EXCEPT ![Client(t)] = Tail(@)]
                /\ Return(t, r)
                /\ UNCHANGED <<aborted, badResp, pending, sent>>
    /\ UNCHANGED <<cfgVars, closeVars, initVars, timeoutCh, store, op, nOps, drained,
                   written, prev, prior, intf, clean>>

\* mutant: the timeout channel is not cleared before the push
NotDrained(ch) == ch

\* the non-blocking receive that clears the timeout channel
Drained(ch) == IF ch # <<>> THEN Tail(ch) ELSE ch

\* mutant: the timeout branch goes to the push without the clearing select
TimeoutNoClear(t, next) ==
    /\ drained' = [drained EXCEPT ![t] = FALSE]
    /\ timeoutCh' = timeoutCh
    /\ pc' = [pc EXCEPT ![t] = next]

\* `case <-time.After(cfg.requestTimeout)` and the clearing select
Timeout(t, next) ==
    /\ drained' = [drained EXCEPT ![t] = timeoutCh[Client(t)] # <<>>]
    /\ timeoutCh' = [timeoutCh EXCEPT ![Client(t)] = Drained(@)]
    /\ pc' = [pc EXCEPT ![t] = next]

\* `client.timeoutCh <- tla.TLA_TRUE`: blocks while the buffer is full
Push(t, next) ==
    /\ Len(timeoutCh[Client(t)]) < TimeoutChCap
    /\ timeoutCh' = [timeoutCh EXCEPT ![Client(t)] = Append(@, TRUE)]
    /\ drained' = [drained EXCEPT ![t] = FALSE]
    /\ pc' = [pc EXCEPT ![t] = next]

ReadTimeout(t) ==
    /\ Running
    /\ pc[t] = "read_select"
    /\ Timeout(t, "read_push")
    /\ UNCHANGED <<cfgVars, closeVars, initVars, aborted, pending, outCh, store, op,
                   frameVars, ret, nOps, sent, histVars>>

\* mutant: after the push Read gives up and returns an error
ReadPushGivesUp(t) ==
    /\ Running
    /\ pc[t] = "read_push"
    /\ Len(timeoutCh[Client(t)]) < TimeoutChCap
    /\ timeoutCh' = [timeoutCh EXCEPT ![Client(t)] = Append(@, TRUE)]
    /\ drained' = [drained EXCEPT ![t] = FALSE]
    /\ Return(t, [status |-> "timeout", val |-> EmptyMap])
    /\ UNCHANGED <<cfgVars, closeVars, initVars, aborted, pending, outCh, store, op,
                   nOps, sent, histVars>>

\* mutant: after the push Read sends its request again
ReadPushResends(t) ==
    /\ Running
    /\ pc[t] = "read_push"
    /\ Push(t, "read_select")
    /\ pending' = [pending EXCEPT ![Client(t)] = Append(@, GetRequest(keyStr[t]))]
    /\ UNCHANGED <<cfgVars, closeVars, initVars, aborted, outCh, store, op, frameVars,
                   ret, nOps, sent, histVars>>

ReadPush(t) ==
    /\ Running
    /\ pc[t] = "read_push"
    /\ Push(t, "read_select")
    /\ UNCHANGED <<cfgVars, closeVars, initVars, aborted, pending, outCh, store, op,
                   frameVars, ret, nOps, sent, histVars>>

\* ------------------------------------------------ the receive of Insert
\* the four asserts of Insert on a response
InsertValid(resp, k, kv) ==
    /\ resp.msuccess
    /\ resp.mtype = "ClientPutResponse"
    /\ resp.key = k
    /\ resp.value = kv

\* `case resp := <-client.outCh` of Insert, to `return nil`
InsertRecv(t) ==
    /\ Running
    /\ pc[t] = "insert_select"
    /\ outCh[Client(t)] # <<>>
    /\ LET resp == Head(outCh[Client(t)])
       IN  /\ outCh' = [outCh EXCEPT ![Client(t)] = Tail(@)]
           /\ IF ~InsertValid(resp, keyStr[t], kvFn[t])
              THEN /\ aborted' = "integrity"
                   /\ badResp' = resp
                   /\ UNCHANGED <<pc, ret, frameVars>>
              ELSE /\ Return(t, RetOk)
                   /\ UNCHANGED <<aborted, badResp>>
    /\ UNCHANGED <<cfgVars, closeVars, initVars, pending, timeoutCh, store, op, nOps,
                   sent, drained, written, prev, prior, intf, clean>>

InsertTimeout(t) ==
    /\ Running
    /\ pc[t] = "insert_select"
    /\ Timeout(t, "insert_push")
    /\ UNCHANGED <<cfgVars, closeVars, initVars, aborted, pending, outCh, store, op,
                   frameVars, ret, nOps, sent, histVars>>

\* mutant: after the push Insert gives up and returns an error
InsertPushGivesUp(t) ==
    /\ Running
    /\ pc[t] = "insert_push"
    /\ Len(timeoutCh[Client(t)]) < TimeoutChCap
    /\ timeoutCh' = [timeoutCh EXCEPT ![Client(t)] = Append(@, TRUE)]
    /\ drained' = [drained EXCEPT ![t] = FALSE]
    /\ Return(t, [status |-> "timeout", val |-> EmptyMap])
    /\ UNCHANGED <<cfgVars, closeVars, initVars, aborted, pending, outCh, store, op,
                   nOps, sent, histVars>>

InsertPush(t) ==
    /\ Running
    /\ pc[t] = "insert_push"
    /\ Push(t, "insert_select")
    /\ UNCHANGED <<cfgVars, closeVars, initVars, aborted, pending, outCh, store, op,
                   frameVars, ret, nOps, sent, histVars>>

\* ------------------------------------- the runtime and the cluster behind it
\* the response of the store to a request, and the store after it
Response(req) ==
    IF req.type = "Get"
    THEN [msuccess |-> TRUE, mtype |-> "ClientGetResponse", key |-> req.key,
          ok |-> store[req.key].present, value |-> store[req.key].value]
    ELSE [msuccess |-> TRUE, mtype |-> "ClientPutResponse", key |-> req.key,
          ok |-> TRUE, value |-> req.value]

Applied(req) ==
    IF req.type = "Get" THEN store
    ELSE [store EXCEPT ![req.key] = [present |-> TRUE, value |-> req.value]]

\* the runtime of endpoint e takes its oldest request to the cluster, which
\* applies it, and offers `resp` on outCh
Answer(e, resp) ==
    /\ Running
    /\ started[e]
    /\ pending[e] # <<>>
    /\ outCh[e] = <<>>
    /\ LET req == Head(pending[e])
       IN  /\ store' = Applied(req)
           /\ written' = IF req.type = "Put" THEN written \cup {req.key}
                          ELSE written
           /\ pending' = [pending EXCEPT ![e] = Tail(@)]
           /\ outCh' = [outCh EXCEPT ![e] = <<resp>>]
           /\ prior' = [prior EXCEPT ![e] =
                           IF sent[e] = 1 THEN store[req.key] ELSE @]
           /\ clean' = [clean EXCEPT ![e] = IF sent[e] = 1 THEN ~intf[e] ELSE @]
           /\ intf' = [u \in Workers |->
                          IF u = e
                          THEN (IF sent[e] = 1 THEN FALSE ELSE intf[e])
                          ELSE intf[u] \/ (/\ req.type = "Put"
                                           /\ op[u].kind \notin {"none", "Scan"}
                                           /\ KeyStr(op[u].table, op[u].key) = req.key)]
    /\ UNCHANGED <<cfgVars, closeVars, initVars, aborted, pc, timeoutCh, op, frameVars,
                   ret, nOps, sent, drained, badResp, prev>>

ClusterApply(e) ==
    /\ pending[e] # <<>>
    /\ Answer(e, Response(Head(pending[e])))

\* responses that break what the asserts of Read and Insert demand
Corrupted(req) ==
    LET r == Response(req)
    IN  {[r EXCEPT !.msuccess = FALSE],
         [r EXCEPT !.msuccess = FALSE, !.ok = FALSE],
         [r EXCEPT !.mtype = IF req.type = "Get" THEN "ClientPutResponse"
                             ELSE "ClientGetResponse"]}
        \cup {[r EXCEPT !.key = k] : k \in FlatKeys \ {req.key}}
        \cup (IF req.type = "Put"
              THEN {[r EXCEPT !.value = KvFn(m)] :
                       m \in {x \in ValueMaps \cup {EmptyMap} : KvFn(x) # req.value}}
              ELSE {})

ClusterCorrupt(e) ==
    /\ pending[e] # <<>>
    /\ \E resp \in Corrupted(Head(pending[e])) : Answer(e, resp)

\* the runtime reads the timeout signal
RuntimeTimeout(e) ==
    /\ Running
    /\ started[e]
    /\ timeoutCh[e] # <<>>
    /\ timeoutCh' = [timeoutCh EXCEPT ![e] = Tail(@)]
    /\ UNCHANGED <<cfgVars, closeVars, initVars, aborted, pc, pending, outCh, store, op,
                   frameVars, ret, nOps, sent, drained, histVars>>

\* --------------------------------------------- the end of the runtimes
\* the nil error, and the error the runtime of endpoint e ends with
NilErr == 0
ErrOf(e) == e

\* multierr.Append(left, right): nil adds nothing, an error is added at the end
MultierrAppend(left, right) == IF right = NilErr THEN left ELSE Append(left, right)

\* `errCh <- clientCtx.Run()`: Run returns and its result goes to errCh
RuntimeExit(e, err) ==
    /\ Running
    /\ started[e]
    /\ exitErr[e] = -1
    /\ exitErr' = [exitErr EXCEPT ![e] = err]
    /\ errCh' = [errCh EXCEPT ![e] = Append(@, err)]
    /\ UNCHANGED <<cfgVars, initVars, aborted, pc, chanVars, store, op,
                   frameVars, ret, nOps, sent, drained, histVars, stopped,
                   closePc, closeList, closeIdx, closeErr>>

\* Close to the start of its loop: `var err error` and the range expression;
\* the harness calls it when no worker is inside a call
Close ==
    /\ Running
    /\ closePc = "none"
    /\ \A t \in Workers : pc[t] \in {"start", "idle"}
    /\ closeList' = clientThreads
    /\ closeIdx' = 1
    /\ closeErr' = <<>>
    /\ closePc' = IF clientThreads = <<>> THEN "done" ELSE "stop"
    /\ UNCHANGED <<cfgVars, initVars, aborted, pc, chanVars, store, op,
                   frameVars, ret, nOps, sent, drained, histVars, exitErr,
                   errCh, stopped>>

\* `client.clientCtx.Stop()`
CloseStop ==
    /\ Running
    /\ closePc = "stop"
    /\ stopped' = [stopped EXCEPT ![closeList[closeIdx]] = TRUE]
    /\ closePc' = "recv"
    /\ UNCHANGED <<cfgVars, initVars, aborted, pc, chanVars, store, op,
                   frameVars, ret, nOps, sent, drained, histVars, exitErr,
                   errCh, closeList, closeIdx, closeErr>>

\* mutant: Close keeps only the error it received last
CloseRecvOverwrites ==
    /\ Running
    /\ closePc = "recv"
    /\ errCh[closeList[closeIdx]] # <<>>
    /\ LET client == closeList[closeIdx]
       IN  /\ closeErr' = IF Head(errCh[client]) = NilErr THEN <<>>
                          ELSE <<Head(errCh[client])>>
           /\ errCh' = [errCh EXCEPT ![client] = Tail(@)]
    /\ IF closeIdx = Len(closeList)
       THEN closePc' = "done" /\ UNCHANGED closeIdx
       ELSE closePc' = "stop" /\ closeIdx' = closeIdx + 1
    /\ UNCHANGED <<cfgVars, initVars, aborted, pc, chanVars, store, op,
                   frameVars, ret, nOps, sent, drained, histVars, exitErr,
                   stopped, closeList>>

\* `err = multierr.Append(err, <-client.errCh)`, then the next round of the
\* loop or, after the last one, the return of err
CloseRecv ==
    /\ Running
    /\ closePc = "recv"
    /\ errCh[closeList[closeIdx]] # <<>>
    /\ LET client == closeList[closeIdx]
       IN  /\ closeErr' = MultierrAppend(closeErr, Head(errCh[client]))
           /\ errCh' = [errCh EXCEPT ![client] = Tail(@)]
    /\ IF closeIdx = Len(closeList)
       THEN closePc' = "done" /\ UNCHANGED closeIdx
       ELSE closePc' = "stop" /\ closeIdx' = closeIdx + 1
    /\ UNCHANGED <<cfgVars, initVars, aborted, pc, chanVars, store, op,
                   frameVars, ret, nOps, sent, drained, histVars, exitErr,
                   stopped, closeList>>

\* ------------------------------------------------------- specifications
WorkerStep(t) ==
    \/ \E idx \in 0..(NumWorkers - 1) : InitThread(t, idx)
    \/ InitThreadAppend(t)
    \/ InitThreadStart(t)
    \/ \E p \in Pairs, fl \in FieldLists : Read(t, p[1], p[2], fl)
    \/ \E p \in Pairs, m \in UpdateMaps : Update(t, p[1], p[2], m)
    \/ \E p \in Pairs, m \in InsertMaps : Insert(t, p[1], p[2], m)
    \/ \E p \in Pairs : Delete(t, p[1], p[2])
    \/ Scan(t)
    \/ ReadRecv(t)
    \/ ReadTimeout(t)
    \/ ReadPush(t)
    \/ InsertRecv(t)
    \/ InsertTimeout(t)
    \/ InsertPush(t)

Next ==
    \/ \E t \in Workers : WorkerStep(t)
    \/ \E e \in Workers : ClusterApply(e)
    \/ \E e \in Workers : RuntimeTimeout(e)

Spec == Init /\ [][Next]_vars

\* the same program against a cluster that may also answer wrongly
NextFaulty ==
    \/ Next
    \/ \E e \in Workers : ClusterCorrupt(e)

InitFaulty == InitWith(MaxOpsFaulty)

SpecFaulty == InitFaulty /\ [][NextFaulty]_vars

\* the life of the endpoints alone: the InitThread calls, the ends of the
\* runtimes and Close, with no API call
InitClose == InitWith(0)

NextClose ==
    \/ \E t \in Workers, idx \in 0..(NumWorkers - 1) : InitThread(t, idx)
    \/ \E t \in Workers : InitThreadAppend(t)
    \/ \E t \in Workers : InitThreadStart(t)
    \/ \E e \in Workers : \E err \in {NilErr, ErrOf(e)} : RuntimeExit(e, err)
    \/ Close
    \/ CloseStop
    \/ CloseRecv

SpecClose == InitClose /\ [][NextClose]_vars

\* two workers that update different fields of one key: worker 1 field f,
\* the others field g
RaceMap(t) == [x \in {IF t = 1 THEN "f" ELSE "g"} |-> B2]

InitRace == InitWith(MaxOps)

NextRace ==
    \/ \E t \in Workers, idx \in 0..(NumWorkers - 1) : InitThread(t, idx)
    \/ \E t \in Workers : InitThreadAppend(t)
    \/ \E t \in Workers : InitThreadStart(t)
    \/ \E t \in Workers : Update(t, "t", "k", RaceMap(t))
    \/ \E t \in Workers : ReadRecv(t)
    \/ \E t \in Workers : ReadTimeout(t)
    \/ \E t \in Workers : ReadPush(t)
    \/ \E t \in Workers : InsertRecv(t)
    \/ \E t \in Workers : InsertTimeout(t)
    \/ \E t \in Workers : InsertPush(t)
    \/ \E e \in Workers : ClusterApply(e)
    \/ \E e \in Workers : RuntimeTimeout(e)

SpecRace == InitRace /\ [][NextRace]_vars

\* mutant: the timer of Read may have fired whenever the select is reached
ReadTimeoutAnyTime(t) == ReadTimeout(t)

\* the timeout branch with a positive cfg.requestTimeout: every round of the
\* loop makes a new timer, so a select that finds a response offered takes
\* the response; the timer wins only while nothing is offered
ReadTimeoutTimed(t) ==
    /\ pc[t] = "read_select"
    /\ outCh[Client(t)] = <<>>
    /\ ReadTimeout(t)

InsertTimeoutTimed(t) ==
    /\ pc[t] = "insert_select"
    /\ outCh[Client(t)] = <<>>
    /\ InsertTimeout(t)

\* the steps of worker t, with the timed timeout branches
WorkerLive(t) ==
    \/ \E idx \in 0..(NumWorkers - 1) : InitThread(t, idx)
    \/ InitThreadAppend(t)
    \/ InitThreadStart(t)
    \/ \E p \in Pairs, fl \in FieldLists : Read(t, p[1], p[2], fl)
    \/ \E p \in Pairs, m \in UpdateMaps : Update(t, p[1], p[2], m)
    \/ \E p \in Pairs, m \in InsertMaps : Insert(t, p[1], p[2], m)
    \/ \E p \in Pairs : Delete(t, p[1], p[2])
    \/ ReadRecv(t)
    \/ ReadTimeoutTimed(t)
    \/ ReadPush(t)
    \/ InsertRecv(t)
    \/ InsertTimeoutTimed(t)
    \/ InsertPush(t)

InitLive == InitWith(MaxOpsLive)

NextLive ==
    \/ \E t \in Workers : WorkerLive(t)
    \/ \E e \in Workers : ClusterApply(e)
    \/ \E e \in Workers : RuntimeTimeout(e)

\* the Go scheduler keeps running a goroutine that can take a step; nothing
\* is assumed of the runtime and the cluster
SpecLive ==
    /\ InitLive
    /\ [][NextLive]_vars
    /\ \A t \in Workers : WF_vars(WorkerLive(t))

\* ------------------------------------------------------------------ claims
\* where a worker is inside the wait loop of Read or Insert
Selects == {"read_select", "insert_select"}
Pushes == {"read_push", "insert_push"}
Awaiting(t) == pc[t] \in Selects \cup Pushes

\* the flat key of the worker's current (or last) API call
OpKey(t) == KeyStr(op[t].table, op[t].key)

\* C1: single-outstanding invariant.  No endpoint ever has more than one
\* request that was sent on inCh and whose response was not yet consumed from
\* outCh; a worker that is not inside a call has none; and the Put of an
\* Update is outstanding only after the response to its Get was consumed.
C1_SingleOutstanding ==
    \A t \in Workers :
        /\ Outstanding(t) <= 1
        /\ ~Awaiting(t) => Outstanding(t) = 0
        /\ (Awaiting(t) /\ Running) => Outstanding(t) = 1
        /\ (op[t].kind = "Update" /\ sent[t] = 2 /\ pending[t] # <<>>)
              => (pending[t][1].type = "Put" /\ outCh[t] = <<>>)

\* an Update has consumed the response to its Get and its Put is outstanding,
\* while the endpoint has served a call before
C1_Witness ==
    \E t \in Workers :
        /\ op[t].kind = "Update"
        /\ nOps[t] = 2
        /\ sent[t] = 2
        /\ pc[t] = "insert_select"
        /\ Len(pending[t]) = 1
        /\ prev[t].kind # "none"

\* worker t takes a response off its endpoint's outCh in this step
Consumes(t) ==
    /\ pc[t] \in Selects
    /\ outCh[t] # <<>>
    /\ outCh'[t] = Tail(outCh[t])

\* worker t takes the timeout branch, or finishes it with the push
TimeoutStep(t) ==
    \/ pc[t] \in Selects /\ pc'[t] \in Pushes
    \/ pc[t] \in Pushes /\ pc'[t] \in Selects

\* C2: no silent drop.  A Read or Insert that has sent its request has no
\* result while it waits, and it leaves the wait loop (returns a value, ok or
\* not-found) only in a step that consumes a response from its own
\* endpoint's outCh.  A timeout step, any number of times, leaves the call's
\* result and the process untouched and the call inside the wait loop.
C2_NoSilentDrop ==
    [][\A t \in Workers :
          Awaiting(t) =>
              /\ ret[t] = NoRet
              /\ (~Awaiting(t)') => Consumes(t)
              /\ (ret'[t] # ret[t]) => Consumes(t)
              /\ TimeoutStep(t) =>
                    /\ Awaiting(t)'
                    /\ ret'[t] = NoRet
                    /\ aborted' = aborted
                    /\ Outstanding(t)' = 1]_vars

\* a Read whose response is ready has timed out at least twice and still
\* has no result
C2_Witness ==
    \E t \in Workers :
        /\ op[t].kind = "Read"
        /\ pc[t] = "read_push"
        /\ drained[t]
        /\ outCh[t] # <<>>
        /\ ret[t] = NoRet

\* the value a running Insert put in its Put request
SentValue(t) ==
    IF op[t].kind = "Update" THEN kvFn[t]
    ELSE IF useInts THEN Itoa(JsonLen(op[t].values))
    ELSE [k \in DOMAIN op[t].values |-> op[t].values[k]]

\* C3: response validation.  When Read consumes a response it completes
\* (value or not-found; inside Update it goes on to the Put) iff the response
\* has msuccess, is a Get response and carries the flat key of the request;
\* when Insert consumes one it completes with ok iff the response has
\* msuccess, is a Put response, carries the flat key and echoes the value
\* that was sent.  Otherwise the process aborts with an integrity failure
\* and the caller gets nothing: a Get response with msuccess false and
\* presence flag false aborts, it is not a not-found.
C3_ResponseValidation ==
    [][\A t \in Workers :
          (Running /\ Consumes(t)) =>
              LET resp == Head(outCh[t])
                  valid == /\ resp.msuccess
                           /\ resp.key = OpKey(t)
                           /\ IF pc[t] = "read_select"
                              THEN resp.mtype = "ClientGetResponse"
                              ELSE /\ resp.mtype = "ClientPutResponse"
                                   /\ resp.value = SentValue(t)
              IN  IF valid
                  THEN /\ aborted' = "none"
                       /\ IF pc[t] = "insert_select"
                          THEN pc'[t] = "idle" /\ ret'[t] = RetOk
                          ELSE IF ~resp.ok
                          THEN pc'[t] = "idle" /\ ret'[t] = RetNotFound
                          ELSE IF op[t].kind = "Update"
                          THEN pc'[t] = "insert_select" /\ ret'[t] = NoRet
                          ELSE pc'[t] = "idle" /\ ret'[t].status = "value"
                  ELSE /\ aborted' = "integrity"
                       /\ ret'[t] = NoRet
                       /\ pc'[t] = pc[t]]_vars

\* the process died on a Get response that has msuccess false and presence
\* flag false, and the Read that consumed it returned nothing
C3_Witness ==
    /\ aborted = "integrity"
    /\ badResp.mtype = "ClientGetResponse"
    /\ ~badResp.msuccess
    /\ ~badResp.ok
    /\ \E t \in Workers :
          /\ op[t].kind = "Read"
          /\ pc[t] = "read_select"
          /\ badResp.key = OpKey(t)
          /\ ret[t] = NoRet

\* C4: timeout signal containment.  The timeout channel of an endpoint never
\* holds more than one signal; between the clearing select and the push of a
\* timeout branch it is empty (so the push refills an empty slot and cannot
\* queue behind an old signal), and what it holds is the one TRUE signal.
C4_TimeoutSignalContained ==
    \A t \in Workers :
        /\ Len(timeoutCh[t]) <= 1
        /\ pc[t] \in Pushes => timeoutCh[t] = <<>>
        /\ timeoutCh[t] # <<>> => timeoutCh[t] = <<TRUE>>

\* in its second call a worker has timed out and cleared a signal that was
\* still in the slot
C4_Witness ==
    \E t \in Workers :
        /\ nOps[t] = 2
        /\ pc[t] \in Pushes
        /\ drained[t]
        /\ timeoutCh[t] = <<>>

\* the request a call of this kind puts on inCh first
FirstRequestType(kind) == IF kind \in {"Read", "Update"} THEN "Get" ELSE "Put"

\* C5: no re-send on timeout.  The requests an endpoint's runtime has
\* received grow only by one request at a time, and only at the start of an
\* API call (a Get for Read and Update, a Put for Insert and Delete, under
\* the call's flat key) or when an Update that consumed the response to its
\* Get sends its Put.  A timeout step changes nothing but the timeout
\* channel of its own endpoint.  So Read, Insert and Delete send one
\* request, Update at most two.
C5_NoResend ==
    [][\A t \in Workers :
          /\ (pending'[t] # pending[t] /\ Len(pending'[t]) >= Len(pending[t])) =>
                /\ Len(pending'[t]) = Len(pending[t]) + 1
                /\ SubSeq(pending'[t], 1, Len(pending[t])) = pending[t]
                /\ LET req == pending'[t][Len(pending'[t])]
                   IN  \/ /\ nOps'[t] = nOps[t] + 1
                          /\ sent'[t] = 1
                          /\ req.type = FirstRequestType(op'[t].kind)
                          /\ req.key = KeyStr(op'[t].table, op'[t].key)
                       \/ /\ nOps'[t] = nOps[t]
                          /\ op[t].kind = "Update"
                          /\ sent[t] = 1 /\ sent'[t] = 2
                          /\ Consumes(t)
                          /\ req.type = "Put"
                          /\ req.key = OpKey(t)
          /\ TimeoutStep(t) =>
                /\ pending' = pending
                /\ outCh' = outCh
                /\ store' = store
                /\ \A u \in Workers \ {t} : timeoutCh'[u] = timeoutCh[u]
          /\ sent[t] = 2 => op[t].kind = "Update"
          /\ op[t].kind \in {"Read", "Insert", "Delete"} => sent[t] = 1
          /\ op[t].kind = "Update" => sent[t] \in {1, 2}]_vars

\* the Put of an Update has timed out more than once and is still the one
\* request its endpoint has
C5_Witness ==
    \E t \in Workers :
        /\ op[t].kind = "Update"
        /\ sent[t] = 2
        /\ pc[t] = "insert_push"
        /\ drained[t]
        /\ Len(pending[t]) = 1
        /\ pending[t][1].type = "Put"

\* C6: not-found.  A Read that has returned, of a flat key no Put was ever
\* applied to, returned the key-not-found error, in either encoding mode; no
\* request of the worker is left over and the process did not abort on it.
\* The call the worker makes next on the endpoint completes as usual.
C6_NotFound ==
    \A t \in Workers :
        /\ (pc[t] = "idle" /\ op[t].kind = "Read" /\ OpKey(t) \notin written) =>
              /\ ret[t] = RetNotFound
              /\ Outstanding(t) = 0
              /\ aborted # "integrity"
        /\ (/\ prev[t].kind = "Read" /\ prev[t].status = "notfound"
            /\ pc[t] = "idle" /\ op[t].kind \in {"Insert", "Delete"}) =>
              ret[t] = RetOk

\* a Read of a key never written returned not-found in integer-size mode
\* while another key of the store holds a value
C6_Witness ==
    \E t \in Workers :
        /\ useInts
        /\ pc[t] = "idle"
        /\ op[t].kind = "Read"
        /\ OpKey(t) \notin written
        /\ written # {}
        /\ ret[t] = RetNotFound

\* a worker has returned from a Read that directly follows its call `kind`
\* on the same flat key, and no other worker wrote the key in between
ReadAfter(t, kind) ==
    /\ pc[t] = "idle"
    /\ op[t].kind = "Read"
    /\ prev[t].kind = kind
    /\ prev[t].key = OpKey(t)
    /\ clean[t]

\* the fields the key held when the Update before the Read read it
PriorFields(t) ==
    IF prev[t].prior.present /\ ~useInts
    THEN [k \in DOMAIN prev[t].prior.value |-> prev[t].prior.value[k]]
    ELSE EmptyMap

\* the supplied values laid over the prior fields
Expected(t) ==
    [k \in DOMAIN PriorFields(t) \cup DOMAIN prev[t].values |->
        IF k \in DOMAIN prev[t].values THEN prev[t].values[k]
        ELSE PriorFields(t)[k]]

\* C7 as stated: with no interleaving writer, Update(t,k,{f:v}) followed by
\* Read(t,k) returns the map of f:v merged over the fields the key held.
C7_UpdateThenRead_AsStated ==
    \A t \in Workers :
        (ReadAfter(t, "Update") /\ op[t].fields = <<>>) =>
            ret[t] = RetValue(Expected(t))

\* C7: Update semantics.  With no interleaving writer, Update(t,k,{f:v})
\* followed by Read(t,k): if the key held a value, the Update returned ok
\* and, in structured mode, the Read returns the supplied values merged over
\* the fields the key held (supplied values win, other fields are kept); in
\* integer-size mode the Read returns the empty map.  If the key held no
\* value the Update returned key-not-found and wrote nothing, and so does
\* the Read.
C7_UpdateThenRead ==
    \A t \in Workers :
        (ReadAfter(t, "Update") /\ op[t].fields = <<>>) =>
            IF ~prev[t].prior.present
            THEN prev[t].status = "notfound" /\ ret[t] = RetNotFound
            ELSE /\ prev[t].status = "ok"
                 /\ ret[t] = IF useInts THEN RetValue(EmptyMap)
                             ELSE RetValue(Expected(t))

\* in structured mode the Read after Update({f: B2}) of a key that held
\* f and g returned the new f and the old g
C7_Witness ==
    \E t \in Workers :
        /\ ~useInts
        /\ ReadAfter(t, "Update")
        /\ op[t].fields = <<>>
        /\ DOMAIN prev[t].prior.value = {"f", "g"}
        /\ ret[t] = RetValue([x \in {"f", "g"} |-> IF x = "f" THEN B2 ELSE B1])

\* the wire value of the empty field map: no field in structured mode, the
\* text "2" (the length of "{}") in integer-size mode
EmptyValue == IF useInts THEN <<50>> ELSE <<>>

\* C8: delete then read.  The request of Delete is a Put of the empty field
\* map under the flat key; with no interleaving writer the Read that follows
\* on the same key succeeds with the empty map, whatever fields it asks for
\* and whether or not the key held a value before.
C8_DeleteThenRead ==
    \A t \in Workers :
        /\ (op[t].kind = "Delete" /\ pending[t] # <<>>) =>
              pending[t] = <<[type |-> "Put", key |-> OpKey(t),
                              value |-> EmptyValue]>>
        /\ ReadAfter(t, "Delete") => ret[t] = RetValue(EmptyMap)

\* in structured mode Read(t,k,["f"]) after the Delete of a key that held a
\* value for f returned the empty map
C8_Witness ==
    \E t \in Workers :
        /\ ~useInts
        /\ ReadAfter(t, "Delete")
        /\ op[t].fields = <<"f">>
        /\ prev[t].prior.present
        /\ "f" \in DOMAIN prev[t].prior.value
        /\ ret[t] = RetValue(EmptyMap)

\* C9: Scan rejection.  The step in which a worker calls Scan returns the
\* not-implemented error and changes nothing else: no request is sent on any
\* endpoint, no timeout signal is written, no response is consumed, the
\* store, the endpoints and every worker's position stay as they were.
C9_ScanRejected ==
    [][\A t \in Workers :
          (nOps'[t] = nOps[t] + 1 /\ op'[t].kind = "Scan") =>
              /\ ret'[t] = RetNotImpl
              /\ UNCHANGED <<pending, outCh, timeoutCh, store, pc, aborted,
                             clientThreads, ctx, allocated, started>>]_vars

\* a worker that never called InitThread got the error from Scan while
\* another worker's request was with the cluster
C9_Witness ==
    \E t \in Workers, u \in Workers :
        /\ op[t].kind = "Scan"
        /\ ret[t] = RetNotImpl
        /\ pc[t] = "start"
        /\ Len(pending[u]) = 1

\* C10: thread-count enforcement.  When the thread count the harness passes
\* differs from the length of the reply-address pool, no InitThread call
\* gets past the check: no channel is allocated, no endpoint is registered,
\* no runtime is started, no worker has a context, and the only way the
\* process dies is the thread-count panic.
C10_ThreadCountEnforced ==
    threadCount # Len(clientReplyPoints) =>
        /\ clientThreads = <<>>
        /\ aborted \in {"none", "config"}
        /\ \A t \in Workers :
              /\ ~allocated[t]
              /\ ~started[t]
              /\ ctx[t] = 0
              /\ pc[t] = "start"

\* InitThread was called with a pool shorter than the thread count and the
\* process died with nothing registered
C10_Witness ==
    /\ aborted = "config"
    /\ threadCount > Len(clientReplyPoints)
    /\ clientThreads = <<>>

\* the errors, nil ones left out, that the runtimes of the endpoints in
\* `list` ended with, in the order of the list
RECURSIVE NonNilErrs(_)
NonNilErrs(list) ==
    IF list = <<>> THEN <<>>
    ELSE (IF exitErr[Head(list)] = 0 THEN <<>> ELSE <<exitErr[Head(list)]>>)
         \o NonNilErrs(Tail(list))

\* C11: Close aggregation.  When Close returns it has received one
\* termination error from each endpoint of the list it ranged over, and what
\* it returns is all their non-nil errors, in order, none overwritten: nil
\* iff every one of these runtimes ended with nil.  No step of Close aborts
\* the process.
C11_CloseAggregation ==
    [][/\ closePc' = "done" =>
            /\ \A i \in 1..Len(closeList') :
                  /\ exitErr'[closeList'[i]] # -1
                  /\ errCh'[closeList'[i]] = <<>>
            /\ closeList' # <<>> => closeIdx' = Len(closeList')
            /\ closeErr' = NonNilErrs(closeList)'
            /\ (closeErr' = <<>>) <=>
                  (\A i \in 1..Len(closeList') : exitErr'[closeList'[i]] = 0)
       /\ closePc' # closePc => aborted' = aborted]_vars

\* Close returned the errors of two runtimes that both ended with an error
C11_Witness ==
    /\ closePc = "done"
    /\ Len(closeList) = 2
    /\ Len(closeErr) = 2
    /\ closeErr[1] # closeErr[2]

\* C12 as stated: Close ordering.  Close signals every endpoint of its list
\* to stop before it waits for a termination error: whenever Close waits for
\* the error of a runtime that has not reported yet, every endpoint of the
\* list has been signalled to stop.
C12_StopAllThenWait_AsStated ==
    (closePc = "recv" /\ errCh[closeList[closeIdx]] = <<>>) =>
        \A i \in 1..Len(closeList) : stopped[closeList[i]]

\* the entries of m whose field name is in the list `fields`; all entries for
\* an empty list
Restrict(m, fields) ==
    LET F == {fields[i] : i \in 1..Len(fields)}
    IN  [k \in {x \in DOMAIN m : fields = <<>> \/ x \in F} |-> m[k]]

\* field maps and field lists the codec is tried on: byte values of length
\* 0, 1 and 2, lists that repeat a name or name a field no map has
CodecMaps ==
    UNION {[D -> {<<>>, B1, <<1, 2>>}] : D \in SUBSET {"f", "g"}}
CodecFieldLists ==
    {<<>>, <<"f">>, <<"g">>, <<"f", "g">>, <<"f", "f">>, <<"h">>, <<"h", "g">>}

\* decode(encode(m), F) = restrict(m, F) on all these maps and lists
CodecRestricts ==
    \A m \in CodecMaps, F \in CodecFieldLists :
        DecodeRecord(EncodeRecord(m), FieldFilter(F)) = Restrict(m, F)

\* C13: codec round trip in structured mode.  Decoding the encoded form of
\* a field map m under the filter of a field list F gives restrict(m, F),
\* byte values unchanged, for all m and F; and with no interleaving writer
\* the Read(t,k,F) that follows Insert(t,k,m) returns exactly restrict(m, F).
C13_CodecRoundTrip ==
    /\ CodecRestricts
    /\ \A t \in Workers :
          (~useInts /\ ReadAfter(t, "Insert")) =>
              ret[t] = RetValue(Restrict(prev[t].values, op[t].fields))

\* Read(t,k,["f"]) after the Insert of a map with fields f and g returned
\* the entry of f alone
C13_Witness ==
    \E t \in Workers :
        /\ ~useInts
        /\ ReadAfter(t, "Insert")
        /\ op[t].fields = <<"f">>
        /\ DOMAIN prev[t].values = {"f", "g"}
        /\ ret[t] = RetValue([x \in {"f"} |-> B1])

\* worker t has returned ok from an Update of flat key k
UpdatedOk(t, k) ==
    /\ pc[t] = "idle"
    /\ op[t].kind = "Update"
    /\ OpKey(t) = k
    /\ ret[t] = RetOk

\* the stored fields `old` with the fields of `values` laid over them
Overlay(old, values) ==
    [x \in DOMAIN old \cup DOMAIN values |->
        IF x \in DOMAIN values THEN values[x] ELSE old[x]]

\* workers t and u have each made one call, an Update of flat key k that
\* returned ok, with different fields, and no other worker has made a call
UpdatedBoth(t, u, k) ==
    /\ UpdatedOk(t, k) /\ UpdatedOk(u, k)
    /\ DOMAIN op[t].values \cap DOMAIN op[u].values = {}
    /\ nOps[t] = 1 /\ nOps[u] = 1
    /\ \A w \in Workers \ {t, u} : nOps[w] = 0

\* C14: Update is not atomic.  In structured mode, when two workers have
\* both returned ok from an Update of the same key with different fields
\* (these being the only calls made) and both Gets met the same stored value
\* (both were answered before either Put was applied), the stored value is
\* what one of them wrote, the old fields with its own values laid over, and
\* lacks the value the other one supplied: that update is lost.  The witness
\* shows the interleaving is reachable.
C14_LostUpdate ==
    \A t \in Workers, u \in Workers, k \in FlatKeys :
        (/\ t # u
         /\ ~useInts
         /\ UpdatedBoth(t, u, k)
         /\ prior[t].present /\ prior[u] = prior[t]) =>
            \E w \in {t, u} :
                LET x == CHOOSE y \in {t, u} : y # w
                IN  /\ store[k].value = Overlay(prior[t].value, op[w].values)
                    /\ \E fld \in DOMAIN op[x].values :
                          store[k].value[fld] # op[x].values[fld]

\* both Updates returned ok, both read the value f = g = B1, and the stored
\* value has the new g but still the old f: the update of f is lost
C14_Witness ==
    /\ ~useInts
    /\ UpdatedBoth(1, 2, "t/k")
    /\ prior[1].present /\ prior[2] = prior[1]
    /\ op[1].values = [x \in {"f"} |-> B2]
    /\ op[2].values = [x \in {"g"} |-> B2]
    /\ store["t/k"].value = [x \in {"f", "g"} |-> IF x = "g" THEN B2 ELSE B1]

\* no worker other than e takes a step of an API call or of InitThread
OthersStill(e) ==
    \A u \in Workers \ {e} :
        /\ pc'[u] = pc[u]
        /\ ret'[u] = ret[u]
        /\ nOps'[u] = nOps[u]

\* C15: endpoint exclusivity.  The context of a worker holds the endpoint
\* its own InitThread made and no other.  A request arrives on the inbound
\* channel of endpoint e only in a step of worker e (the start of its call,
\* or its Update going on to the Put); a response leaves the outbound
\* channel of e only in a step of worker e waiting in its select, and it is
\* the response to e's own request; a signal enters the timeout channel of e
\* only in the push of worker e.  No other worker moves in these steps.
C15_EndpointExclusive ==
    [][\A e \in Workers :
          /\ ctx[e] \in {0, e}
          /\ Len(pending'[e]) > Len(pending[e]) =>
                /\ \/ nOps'[e] = nOps[e] + 1
                   \/ pc[e] = "read_select" /\ pc'[e] = "insert_select"
                /\ pending'[e][Len(pending'[e])].key = keyStr'[e]
                /\ OthersStill(e)
          /\ Len(outCh'[e]) < Len(outCh[e]) =>
                /\ pc[e] \in Selects
                /\ Head(outCh[e]).key = keyStr[e]
                /\ pc'[e] # pc[e]
                /\ OthersStill(e)
          /\ Len(timeoutCh'[e]) > Len(timeoutCh[e]) =>
                /\ pc[e] \in Pushes
                /\ pc'[e] \in Selects
                /\ OthersStill(e)]_vars

\* one worker has its result while the response to the other worker's
\* request, for another key, is still offered on that worker's endpoint
C15_Witness ==
    \E t \in Workers, u \in Workers :
        /\ t # u
        /\ pc[t] = "idle" /\ nOps[t] = 1 /\ ret[t].status \in {"value", "ok"}
        /\ pc[u] \in Selects /\ nOps[u] = 1
        /\ outCh[u] # <<>>
        /\ OpKey(t) # OpKey(u)

C17_StartedWithinCap_AsStated ==
    /\ Cardinality({t \in Workers : started[t]}) <= threadCount
    /\ aborted = "toomany" => Len(clientThreads) > threadCount

\* C18: Update of a key never written.  An Update that has returned, of a
\* flat key no Put was ever applied to, returned the not-found error of its
\* Get after one request, and the key is still absent; an Update sends its
\* Put only when its Get found the key present, so it never creates a key;
\* and the Read that follows on the same key is not-found again.
C18_UpdateMissingKey ==
    \A t \in Workers :
        /\ (op[t].kind = "Update" /\ pc[t] = "idle" /\ OpKey(t) \notin written) =>
              /\ ret[t] = RetNotFound
              /\ sent[t] = 1
              /\ ~store[OpKey(t)].present
        /\ (op[t].kind = "Update" /\ sent[t] = 2) => prior[t].present
        /\ (ReadAfter(t, "Update") /\ OpKey(t) \notin written) =>
              /\ prev[t].status = "notfound"
              /\ ret[t] = RetNotFound

\* after an Update of a key never written returned not-found, the Read of
\* the key returned not-found too and the store holds nothing
C18_Witness ==
    \E t \in Workers :
        /\ ReadAfter(t, "Update")
        /\ prev[t].status = "notfound"
        /\ ret[t] = RetNotFound
        /\ written = {}

\* C19: the push of a timeout signal never blocks.  Whenever a worker of a
\* running process stands before `client.timeoutCh <- TLA_TRUE`, the send
\* can be done at once, whatever the runtime has or has not consumed, and it
\* takes the worker back to the select of the same call.
C19_PushNeverBlocks ==
    \A t \in Workers :
        Running =>
            /\ pc[t] = "read_push" =>
                  ENABLED (ReadPush(t) /\ pc'[t] = "read_select")
            /\ pc[t] = "insert_push" =>
                  ENABLED (InsertPush(t) /\ pc'[t] = "insert_select")

\* the Get of an Update stands before the push after its clearing select
\* took a signal the runtime had not consumed
C19_Witness ==
    \E t \in Workers :
        /\ op[t].kind = "Update"
        /\ pc[t] = "read_push"
        /\ drained[t]

\* the set of endpoints in a list
Range(list) == {list[i] : i \in 1..Len(list)}

\* C20 as stated: concurrent InitThread.  When as many workers as the thread
\* count, which is the length of the pool, have all returned from
\* InitThread, the endpoint list holds exactly that many distinct endpoints,
\* one per worker; and a Close that has returned has stopped every runtime
\* that was started and taken its termination error.
C20_AllRegistered_AsStated ==
    (/\ threadCount = NumWorkers
     /\ Len(clientReplyPoints) = threadCount
     /\ \A t \in Workers : pc[t] = "idle") =>
        /\ Len(clientThreads) = threadCount
        /\ Range(clientThreads) = Workers
        /\ closePc = "done" =>
              \A t \in Workers : started[t] => (stopped[t] /\ errCh[t] = <<>>)

====
